---- MODULE Spec2Model ----
(***************************************************************************)
(* Model of server/server.js: the chat server's HTTP handlers and          *)
(* socket.io event handlers over the two durable stores                    *)
(* (chat_storage/<room>.json and class_requests.json) and the in-memory    *)
(* activeRooms registry.                                                   *)
(*                                                                         *)
(* Every handler of server.js is synchronous (readFileSync/writeFileSync,  *)
(* no await, no callback into the event loop), so Node's run-to-completion *)
(* semantics make each handler one atomic step.  Concurrent requests are   *)
(* the interleavings of these steps.                                       *)
(***************************************************************************)
EXTENDS Integers, Sequences, FiniteSets, TLC

\* ---------------------------------------------------------------- bounds
\* Largest reading of Date.now() the model explores (readings are 1..MaxClock).
MaxClock == 2
\* Largest number of send_message events handled in one run.
MaxSends == 2

\* ------------------------------------------------------------ input sets
Rooms == {"A", "B"}
Sockets == {"x", "y"}
Authors == {"alice", "bob"}
\* Values Math.random().toString(36).substr(2, 5) can take (two suffice to
\* have both equal and different suffixes at one clock reading).
Suffixes == {"k3f9a", "zz01q"}
\* Ids a client can put into a send_message payload (overwritten by the server).
ClientIds == {"", "1k3f9a"}
\* Payloads of send_message as they arrive.
SendBodies ==
  { [room |-> "A", author |-> "alice", id |-> ""],
    [room |-> "B", author |-> "bob",   id |-> "1k3f9a"] }

\* Bodies of POST /api/class-request.
Payloads ==
  { [room |-> "A", creatorName |-> "bob",   creatorStudentId |-> "s1", creatorClass |-> "10A"],
    [room |-> "B", creatorName |-> "carol", creatorStudentId |-> "s2", creatorClass |-> "10B"] }

\* Bodies of POST /api/class-request/:id/join.  Two of them share studentId
\* "s1" and differ in the other fields.
ParticipantBodies ==
  { [studentId |-> "s1", fullName |-> "bob",   class |-> "10A"],
    [studentId |-> "s1", fullName |-> "robert", class |-> "10C"],
    [studentId |-> "s2", fullName |-> "carol", class |-> "10B"],
    [studentId |-> "s3", fullName |-> "dave",  class |-> "10A"] }

\* The ?creator= and ?author= query values.
CreatorNames == {"bob", "carol"}

\* Date.now().toString() of every clock reading: the ids a client can name.
RequestIds == { ToString(c) : c \in 1..MaxClock }
\* The message ids the server can assign: the ids a client can name.
MessageIds == { ToString(c) \o x : c \in 1..MaxClock, x \in Suffixes }

VARIABLES
  clock,          \* the reading Date.now() returns
  classRequests,  \* content of class_requests.json: id -> ClassRequest
  chatStorage,    \* chat_storage/: room -> content of <room>.json (absent: no file)
  activeRooms,    \* the activeRooms object: room -> set of socket ids
  currentRoom,    \* socket.currentRoom of every socket ("" when unset)
  socketRooms,    \* socket.io's own room membership of every socket
  conn,           \* connection state of every socket: "new", "open", "closed"
  sends,          \* number of send_message events handled so far
  resp,           \* what the last handler answered
  out             \* the events the last handler emitted

vars == <<clock, classRequests, chatStorage, activeRooms, currentRoom,
          socketRooms, conn, sends, resp, out>>

reqVars == <<classRequests>>
chatVars == <<chatStorage, sends>>
sockVars == <<activeRooms, currentRoom, socketRooms, conn>>

\* ------------------------------------------------------------- emission
\* io.to(room).emit(event, payload): delivered to every socket that
\* socket.io holds in the room.
IoToEmit(room, event, payload) ==
  [event |-> event, room |-> room, payload |-> payload,
   recipients |-> { s \in Sockets : conn[s] = "open" /\ room \in socketRooms[s] }]

\* ------------------------------------------------------- class requests
\* loadClassRequests: the file always exists (it is created at start-up).
loadClassRequests == classRequests

\* saveClassRequests(requests): the file is rewritten whole.
saveClassRequests(requests) == classRequests' = requests

\* requests[id] is truthy
HasRequest(requests, id) == id \in DOMAIN requests

\* requests[requestId] = requestData (adds the key or overwrites it)
PutRequest(requests, id, rec) ==
  [k \in DOMAIN requests \cup {id} |-> IF k = id THEN rec ELSE requests[k]]

\* delete requests[id]
RemoveRequest(requests, id) ==
  [k \in DOMAIN requests \ {id} |-> requests[k]]

\* const requestId = Date.now().toString()
NewRequestId == ToString(clock)

\* Mutant of NewRequest: the creator is not seeded as a participant.
NewRequest_NoSeed(body) ==
  [ id |-> NewRequestId,
    room |-> body.room,
    creatorName |-> body.creatorName,
    creatorStudentId |-> body.creatorStudentId,
    creatorClass |-> body.creatorClass,
    participants |-> << >>,
    participantCount |-> 0,
    createdAt |-> clock ]

\* The record POST /api/class-request builds from the body.
NewRequest(body) ==
  [ id |-> NewRequestId,
    room |-> body.room,
    creatorName |-> body.creatorName,
    creatorStudentId |-> body.creatorStudentId,
    creatorClass |-> body.creatorClass,
    participants |-> << [ studentId |-> body.creatorStudentId,
                          fullName |-> body.creatorName,
                          class |-> body.creatorClass ] >>,
    participantCount |-> 1,
    createdAt |-> clock ]

\* POST /api/class-request
CreateClassRequest(body) ==
  LET requests == loadClassRequests
      requestData == NewRequest(body)
  IN /\ saveClassRequests(PutRequest(requests, requestData.id, requestData))
     /\ out' = << IoToEmit(requestData.room, "class_request_created", requestData) >>
     /\ resp' = [op |-> "create", status |-> 201, id |-> requestData.id,
                 arg |-> body.creatorStudentId, body |-> requestData]
     /\ UNCHANGED <<clock, chatVars, sockVars>>

\* Mutant of DeleteClassRequest: the deleted event is emitted before the
\* creator check, so a refused delete broadcasts too.
DeleteClassRequest_EmitFirst(id, creator) ==
  LET requests == classRequests
  IN /\ IF id \notin DOMAIN requests
          THEN /\ resp' = [op |-> "delete", status |-> 404, id |-> id, arg |-> creator]
               /\ out' = << >>
               /\ UNCHANGED classRequests
        ELSE /\ out' = << IoToEmit(requests[id].room, "class_request_deleted", [id |-> id]) >>
             /\ IF requests[id].creatorName # creator
                  THEN /\ resp' = [op |-> "delete", status |-> 403, id |-> id, arg |-> creator]
                       /\ UNCHANGED classRequests
                  ELSE /\ classRequests' = [k \in DOMAIN requests \ {id} |-> requests[k]]
                       /\ resp' = [op |-> "delete", status |-> 200, id |-> id, arg |-> creator]
     /\ UNCHANGED <<clock, chatVars, sockVars>>

\* Mutant of DeleteClassRequest: the creator check is missing.
DeleteClassRequest_NoAuth(id, creator) ==
  LET requests == classRequests
  IN /\ IF id \notin DOMAIN requests
          THEN /\ resp' = [op |-> "delete", status |-> 404, id |-> id, arg |-> creator]
               /\ out' = << >>
               /\ UNCHANGED classRequests
        ELSE /\ classRequests' = [k \in DOMAIN requests \ {id} |-> requests[k]]
             /\ out' = << [event |-> "class_request_deleted", room |-> requests[id].room,
                           payload |-> [id |-> id], recipients |-> {}] >>
             /\ resp' = [op |-> "delete", status |-> 200, id |-> id, arg |-> creator]
     /\ UNCHANGED <<clock, chatVars, sockVars>>

\* DELETE /api/class-request/:id?creator=
DeleteClassRequest(id, creator) ==
  LET requests == loadClassRequests
  IN /\ IF ~HasRequest(requests, id)
          THEN /\ resp' = [op |-> "delete", status |-> 404, id |-> id, arg |-> creator]
               /\ out' = << >>
               /\ UNCHANGED classRequests
        ELSE IF requests[id].creatorName # creator
          THEN /\ resp' = [op |-> "delete", status |-> 403, id |-> id, arg |-> creator]
               /\ out' = << >>
               /\ UNCHANGED classRequests
        ELSE LET room == requests[id].room
             IN /\ saveClassRequests(RemoveRequest(requests, id))
                /\ out' = << IoToEmit(room, "class_request_deleted", [id |-> id]) >>
                /\ resp' = [op |-> "delete", status |-> 200, id |-> id, arg |-> creator]
     /\ UNCHANGED <<clock, chatVars, sockVars>>

\* Mutant of alreadyJoined: participants are compared by fullName.
alreadyJoined_ByName(request, participantData) ==
  \E i \in 1..Len(request.participants) :
     request.participants[i].fullName = participantData.fullName

\* requests[id].participants.some((p) => p.studentId === participantData.studentId)
alreadyJoined(request, participantData) ==
  \E i \in 1..Len(request.participants) :
     request.participants[i].studentId = participantData.studentId

\* Mutant of AddParticipant: participantCount is not recomputed.
AddParticipant_StaleCount(request, participantData) ==
  [request EXCEPT !.participants = Append(request.participants, participantData)]

\* participants.push(participantData); participantCount = participants.length
AddParticipant(request, participantData) ==
  LET participants == Append(request.participants, participantData)
  IN [request EXCEPT !.participants = participants,
                     !.participantCount = Len(participants)]

\* Mutant of JoinClassRequest: the already-joined check is missing.
JoinClassRequest_NoCheck(id, participantData) ==
  LET requests == classRequests
  IN /\ IF id \notin DOMAIN requests
          THEN /\ resp' = [op |-> "join", status |-> 404, id |-> id,
                           arg |-> participantData.studentId]
               /\ out' = << >>
               /\ UNCHANGED classRequests
        ELSE LET updated == AddParticipant(requests[id], participantData)
             IN /\ classRequests' = PutRequest(requests, id, updated)
                /\ out' = << IoToEmit(updated.room, "class_request_updated", updated) >>
                /\ resp' = [op |-> "join", status |-> 200, id |-> id,
                            arg |-> participantData.studentId, body |-> updated]
     /\ UNCHANGED <<clock, chatVars, sockVars>>

\* POST /api/class-request/:id/join
JoinClassRequest(id, participantData) ==
  LET requests == loadClassRequests
  IN /\ IF ~HasRequest(requests, id)
          THEN /\ resp' = [op |-> "join", status |-> 404, id |-> id,
                           arg |-> participantData.studentId]
               /\ out' = << >>
               /\ UNCHANGED classRequests
        ELSE IF alreadyJoined(requests[id], participantData)
          THEN /\ resp' = [op |-> "join", status |-> 400, id |-> id,
                           arg |-> participantData.studentId]
               /\ out' = << >>
               /\ UNCHANGED classRequests
        ELSE LET updated == AddParticipant(requests[id], participantData)
             IN /\ saveClassRequests(PutRequest(requests, id, updated))
                /\ out' = << IoToEmit(updated.room, "class_request_updated", updated) >>
                /\ resp' = [op |-> "join", status |-> 200, id |-> id,
                            arg |-> participantData.studentId, body |-> updated]
     /\ UNCHANGED <<clock, chatVars, sockVars>>

\* Object.values(requests).filter((req) => req.room === room)
RoomRequests(requests, room) ==
  { requests[k] : k \in { i \in DOMAIN requests : requests[i].room = room } }

\* GET /api/class-requests/:room
GetClassRequests(room) ==
  /\ resp' = [op |-> "list", status |-> 200, id |-> room, arg |-> room,
              body |-> RoomRequests(loadClassRequests, room)]
  /\ out' = << >>
  /\ UNCHANGED <<clock, reqVars, chatVars, sockVars>>

\* ----------------------------------------------------------- chat logs
\* A stored message is [id, room, author, seq]: id, room and author as the
\* code stores them; seq is a history field, the serial number of the
\* send_message event that persisted the message (it stands for the
\* message's own content and lets two stored messages be told apart).

\* loadChatHistory(room): the parsed file, or [] when there is no file.
loadChatHistory(room) ==
  IF room \in DOMAIN chatStorage THEN chatStorage[room] ELSE << >>

\* Mutant of WriteChatFile: the other rooms' files are lost by the write.
WriteChatFile_OnlyRoom(room, messages) ==
  [r \in {room} |-> messages]

\* fs.writeFileSync(getChatFilePath(room), JSON.stringify(messages)):
\* creates the room's file or rewrites it whole.
WriteChatFile(room, messages) ==
  [r \in DOMAIN chatStorage \cup {room} |->
     IF r = room THEN messages ELSE chatStorage[r]]

\* saveChatHistory(room, messages)
saveChatHistory(room, messages) ==
  chatStorage' = WriteChatFile(room, messages)

\* Mutant of saveChatMessage: the file is written from the new message
\* alone, dropping what was loaded.
saveChatMessage_Overwrite(room, message) ==
  chatStorage' = WriteChatFile(room, << message >>)

\* Mutant of saveChatMessage: the message is put in front (unshift).
saveChatMessage_Prepend(room, message) ==
  chatStorage' = WriteChatFile(room, << message >> \o loadChatHistory(room))

\* saveChatMessage(room, message): load, push, write.
saveChatMessage(room, message) ==
  LET history == loadChatHistory(room)
  IN chatStorage' = WriteChatFile(room, Append(history, message))

\* GET /api/chat/:room
GetChatHistory(room) ==
  /\ resp' = [op |-> "history", status |-> 200, id |-> room, arg |-> room,
              body |-> loadChatHistory(room)]
  /\ out' = << >>
  /\ UNCHANGED <<clock, reqVars, chatVars, sockVars>>

\* Mutant of FilterHistory: the author is not compared.
FilterHistory_IdOnly(history, messageId, author) ==
  SelectSeq(history, LAMBDA msg : msg.id # messageId)

\* Mutant of FilterHistory: only the first matching message is dropped.
FilterHistory_FirstOnly(history, messageId, author) ==
  LET hits == { i \in 1..Len(history) :
                  history[i].id = messageId /\ history[i].author = author }
  IN IF hits = {} THEN history
     ELSE LET first == CHOOSE i \in hits : \A j \in hits : i <= j
          IN SubSeq(history, 1, first - 1) \o SubSeq(history, first + 1, Len(history))

\* history.filter((msg) => msg.id !== messageId || msg.author !== author)
FilterHistory(history, messageId, author) ==
  SelectSeq(history, LAMBDA msg : msg.id # messageId \/ msg.author # author)

\* Whether a delete request repeats the one answered just before it with
\* success (a history flag kept with the answer).
RepeatsDelete(room, messageId, author) ==
  /\ resp.op = "deleteMessage" /\ resp.status = 200
  /\ resp.room = room /\ resp.id = messageId /\ resp.arg = author

\* DELETE /api/chat/:room/:messageId?author=
DeleteMessage(room, messageId, author) ==
  LET history == loadChatHistory(room)
      updatedHistory == FilterHistory(history, messageId, author)
  IN /\ IF Len(history) = Len(updatedHistory)
          THEN /\ resp' = [op |-> "deleteMessage", status |-> 403, id |-> messageId,
                           arg |-> author, room |-> room,
                           repeat |-> RepeatsDelete(room, messageId, author)]
               /\ out' = << >>
               /\ UNCHANGED chatStorage
          ELSE /\ saveChatHistory(room, updatedHistory)
               /\ out' = << IoToEmit(room, "message_deleted", [messageId |-> messageId]) >>
               /\ resp' = [op |-> "deleteMessage", status |-> 200, id |-> messageId,
                           arg |-> author, room |-> room,
                           repeat |-> RepeatsDelete(room, messageId, author)]
     /\ UNCHANGED <<clock, reqVars, sends, sockVars>>

\* -------------------------------------------------------------- sockets
\* Mutant of SocketToEmit: the emitting socket is not left out (io.to).
SocketToEmit_ToAll(socket, room, event, payload) ==
  [event |-> event, room |-> room, payload |-> payload,
   recipients |-> { s \in Sockets : conn[s] = "open" /\ room \in socketRooms[s] }]

\* socket.to(room).emit(event, payload): every socket in the room but the
\* emitting one.
SocketToEmit(socket, room, event, payload) ==
  [event |-> event, room |-> room, payload |-> payload,
   recipients |-> { s \in Sockets \ {socket} :
                      conn[s] = "open" /\ room \in socketRooms[s] }]

\* socket.emit(event, payload): the socket itself.
SocketEmit(socket, event, payload) ==
  [event |-> event, room |-> "", payload |-> payload, recipients |-> {socket}]

\* io.on("connection"): a new socket is open; it is in no room.
Connect(socket) ==
  /\ conn[socket] = "new"
  /\ conn' = [conn EXCEPT ![socket] = "open"]
  /\ resp' = [op |-> "connection", status |-> 0, id |-> socket, arg |-> socket]
  /\ out' = << >>
  /\ UNCHANGED <<clock, reqVars, chatVars, activeRooms, currentRoom, socketRooms>>

\* activeRooms[room].add(socket.id), after creating the set when missing
AddToRoom(rooms, room, socket) ==
  [r \in DOMAIN rooms \cup {room} |->
     IF r = room
       THEN (IF room \in DOMAIN rooms THEN rooms[room] ELSE {}) \cup {socket}
       ELSE rooms[r]]

\* Mutant of JoinRoom: the socket is registered in activeRooms but not put
\* into the socket.io room (no socket.join).
JoinRoom_NoSocketJoin(socket, room) ==
  /\ conn[socket] = "open"
  /\ currentRoom' = [currentRoom EXCEPT ![socket] = room]
  /\ activeRooms' = AddToRoom(activeRooms, room, socket)
  /\ out' = << SocketEmit(socket, "chat_history", loadChatHistory(room)) >>
  /\ resp' = [op |-> "join_room", status |-> 0, id |-> room, arg |-> socket]
  /\ UNCHANGED <<clock, reqVars, chatVars, conn, socketRooms>>

\* socket.on("join_room")
JoinRoom(socket, room) ==
  /\ conn[socket] = "open"
  /\ socketRooms' = [socketRooms EXCEPT ![socket] = @ \cup {room}]
  /\ currentRoom' = [currentRoom EXCEPT ![socket] = room]
  /\ activeRooms' = AddToRoom(activeRooms, room, socket)
  /\ out' = << SocketEmit(socket, "chat_history", loadChatHistory(room)) >>
  /\ resp' = [op |-> "join_room", status |-> 0, id |-> room, arg |-> socket]
  /\ UNCHANGED <<clock, reqVars, chatVars, conn>>

\* activeRooms[room].delete(socket.id), and delete activeRooms[room] when
\* the set is left empty
RemoveFromRoom(rooms, room, socket) ==
  IF rooms[room] \ {socket} = {}
    THEN [r \in DOMAIN rooms \ {room} |-> rooms[r]]
    ELSE [rooms EXCEPT ![room] = @ \ {socket}]

\* socket.on("disconnect"): socket.io has taken the socket out of all its
\* rooms; the handler cleans activeRooms for socket.currentRoom only.
Disconnect(socket) ==
  /\ conn[socket] = "open"
  /\ conn' = [conn EXCEPT ![socket] = "closed"]
  /\ socketRooms' = [socketRooms EXCEPT ![socket] = {}]
  /\ activeRooms' =
       IF currentRoom[socket] # "" /\ currentRoom[socket] \in DOMAIN activeRooms
         THEN RemoveFromRoom(activeRooms, currentRoom[socket], socket)
         ELSE activeRooms
  /\ out' = << >>
  /\ resp' = [op |-> "disconnect", status |-> 0, id |-> currentRoom[socket],
              arg |-> socket]
  /\ UNCHANGED <<clock, reqVars, chatVars, currentRoom>>

\* Date.now().toString() + Math.random().toString(36).substr(2, 5)
NewMessageId(suffix) == ToString(clock) \o suffix

\* data after data.id = ...: the client's id is overwritten.
StampMessage(data, suffix) ==
  [id |-> NewMessageId(suffix), room |-> data.room, author |-> data.author,
   seq |-> sends + 1]

\* socket.on("send_message")
SendMessage(socket, data, suffix) ==
  LET message == StampMessage(data, suffix)
  IN /\ conn[socket] = "open"
     /\ sends < MaxSends
     /\ sends' = sends + 1
     /\ saveChatMessage(message.room, message)
     /\ out' = << SocketToEmit(socket, message.room, "receive_message", message),
                  SocketEmit(socket, "message_sent", message) >>
     /\ resp' = [op |-> "send_message", status |-> 0, id |-> message.id,
                 arg |-> data.id, room |-> message.room]
     /\ UNCHANGED <<clock, reqVars, sockVars>>

\* Date.now() moves on between two events.
Tick ==
  /\ clock < MaxClock
  /\ clock' = clock + 1
  /\ UNCHANGED <<reqVars, chatVars, sockVars, resp, out>>

\* ------------------------------------------------------------- start-up
Init ==
  /\ clock = 1
  /\ classRequests = << >>
  /\ chatStorage = << >>
  /\ activeRooms = << >>
  /\ currentRoom = [s \in Sockets |-> ""]
  /\ socketRooms = [s \in Sockets |-> {}]
  /\ conn = [s \in Sockets |-> "new"]
  /\ sends = 0
  /\ resp = [op |-> "start", status |-> 0, id |-> "", arg |-> ""]
  /\ out = << >>

\* The class-request endpoints.
NextRequests ==
  \/ Tick
  \/ \E body \in Payloads : CreateClassRequest(body)
  \/ \E id \in RequestIds, creator \in CreatorNames : DeleteClassRequest(id, creator)
  \/ \E id \in RequestIds, participantData \in ParticipantBodies :
        JoinClassRequest(id, participantData)
  \/ \E room \in Rooms : GetClassRequests(room)

SpecRequests == Init /\ [][NextRequests]_vars

\* The chat endpoints and the send_message event.
NextChat ==
  \/ Tick
  \/ \E socket \in Sockets : Connect(socket)
  \/ \E socket \in Sockets, data \in SendBodies, suffix \in Suffixes :
        SendMessage(socket, data, suffix)
  \/ \E room \in Rooms : GetChatHistory(room)
  \/ \E room \in Rooms, messageId \in MessageIds, author \in Authors :
        DeleteMessage(room, messageId, author)

SpecChat == Init /\ [][NextChat]_vars

\* The socket events.
NextRooms ==
  \/ \E socket \in Sockets : Connect(socket)
  \/ \E socket \in Sockets, room \in Rooms : JoinRoom(socket, room)
  \/ \E socket \in Sockets, data \in SendBodies, suffix \in Suffixes :
        SendMessage(socket, data, suffix)
  \/ \E socket \in Sockets : Disconnect(socket)

SpecRooms == Init /\ [][NextRooms]_vars

\* ------------------------------------------------- class-request claims

\* C1: two concurrent joins with one studentId on one request run as two
\* handler steps in some order.  The one that finds the studentId absent
\* answers 200 and raises participantCount by exactly 1; the one that runs
\* right after that success with the same id and studentId answers 400 and
\* leaves the table as it is, so the count ends exactly 1 higher.
C1_ConcurrentJoinExactlyOne ==
  [][\A id \in RequestIds, pd \in ParticipantBodies :
       JoinClassRequest(id, pd) =>
         /\ (HasRequest(classRequests, id) /\ ~alreadyJoined(classRequests[id], pd))
              => /\ resp'.status = 200
                 /\ classRequests'[id].participantCount
                      = classRequests[id].participantCount + 1
         /\ (resp.op = "join" /\ resp.status = 200 /\ resp.id = id
               /\ resp.arg = pd.studentId)
              => /\ resp'.status = 400
                 /\ classRequests' = classRequests]_vars

\* C1 witness: a join was refused with 400 for the studentId that an
\* earlier join had added as the request's second participant.
C1_Witness ==
  /\ resp.op = "join" /\ resp.status = 400
  /\ HasRequest(classRequests, resp.id)
  /\ classRequests[resp.id].participantCount = 2
  /\ classRequests[resp.id].participants[2].studentId = resp.arg

\* C3: every create assigns an id no record of the table has, so it adds a
\* record and never overwrites one.
C3_CreateNeverOverwrites ==
  [][\A body \in Payloads :
       CreateClassRequest(body) =>
         /\ ~HasRequest(classRequests, NewRequestId)
         /\ Cardinality(DOMAIN classRequests')
              = Cardinality(DOMAIN classRequests) + 1]_vars

\* C4: every record has participantCount = length(participants) and holds
\* the participant seeded from its creator.
C4_CountAndCreator ==
  \A id \in DOMAIN classRequests :
    LET r == classRequests[id]
    IN /\ r.participantCount = Len(r.participants)
       /\ \E i \in 1..Len(r.participants) :
            r.participants[i].studentId = r.creatorStudentId

\* C4 witness: a request two further students have joined.
C4_Witness ==
  \E id \in DOMAIN classRequests :
    /\ classRequests[id].participantCount = 3
    /\ Len(classRequests[id].participants) = 3

\* C5: no record has two participants with the same studentId.
C5_UniqueStudentId ==
  \A id \in DOMAIN classRequests :
    LET ps == classRequests[id].participants
    IN \A i, j \in 1..Len(ps) : ps[i].studentId = ps[j].studentId => i = j

\* C5 witness: a join naming the studentId of a participant who is not the
\* creator, under another fullName, has just been refused.
C5_Witness ==
  /\ resp.op = "join" /\ resp.status = 400
  /\ HasRequest(classRequests, resp.id)
  /\ classRequests[resp.id].creatorStudentId # resp.arg
  /\ \E i \in 1..Len(classRequests[resp.id].participants) :
       /\ classRequests[resp.id].participants[i].studentId = resp.arg
       /\ classRequests[resp.id].participants[i].fullName = "robert"

\* C6: a delete of an existing request by someone who is not its creator
\* answers 403, changes no record, emits nothing, and the record is still
\* among the class requests listed for its room.
C6_DeleteByNonCreator ==
  [][\A id \in RequestIds, creator \in CreatorNames :
       ( /\ DeleteClassRequest(id, creator)
         /\ HasRequest(classRequests, id)
         /\ classRequests[id].creatorName # creator )
       => /\ resp'.status = 403
          /\ classRequests' = classRequests
          /\ out' = << >>
          /\ classRequests[id]
               \in RoomRequests(classRequests', classRequests[id].room)]_vars

\* C6 witness: a delete was refused with 403 and its target is in the table.
C6_Witness ==
  /\ resp.op = "delete" /\ resp.status = 403
  /\ HasRequest(classRequests, resp.id)
  /\ classRequests[resp.id].creatorName # resp.arg

\* C8: a join on a request with the studentId of the request's creator
\* answers 400 and leaves the table unchanged.
C8_CreatorCannotJoin ==
  [][\A id \in RequestIds, pd \in ParticipantBodies :
       ( /\ JoinClassRequest(id, pd)
         /\ HasRequest(classRequests, id)
         /\ pd.studentId = classRequests[id].creatorStudentId )
       => /\ resp'.status = 400
          /\ classRequests' = classRequests]_vars

\* C8 witness: a join with the creator's studentId was refused on a request
\* nobody else has joined.
C8_Witness ==
  /\ resp.op = "join" /\ resp.status = 400
  /\ HasRequest(classRequests, resp.id)
  /\ classRequests[resp.id].creatorStudentId = resp.arg
  /\ classRequests[resp.id].participantCount = 1

\* ----------------------------------------------------------- chat claims

\* The messages of a log are in the order of the send_message events that
\* persisted them.
InSendOrder(history) ==
  \A i, j \in 1..Len(history) : i < j => history[i].seq < history[j].seq

\* Every stored message, with the room whose log holds it and its place.
StoredAt ==
  UNION { { <<room, i>> : i \in 1..Len(chatStorage[room]) } : room \in DOMAIN chatStorage }

\* C2: a send_message handler appends exactly one message to its room's
\* log and keeps every message the log held, whatever handlers ran before
\* it; so after two sends on a room, in either order, both messages are in
\* the log and its length is the initial length + 2.
C2_NoLostMessage ==
  [][sends' = sends + 1 =>
       LET room == resp'.room
           before == loadChatHistory(room)
           after == IF room \in DOMAIN chatStorage' THEN chatStorage'[room] ELSE << >>
       IN /\ Len(after) = Len(before) + 1
          /\ \A i \in 1..Len(before) : after[i] = before[i]
          /\ after[Len(after)].seq = sends']_vars

\* C2 witness: two send_message events were handled on one room and its
\* log holds both messages.
C2_Witness ==
  /\ resp.op = "send_message" /\ sends = 2
  /\ Len(loadChatHistory(resp.room)) = 2
  /\ loadChatHistory(resp.room)[1].seq = 1
  /\ loadChatHistory(resp.room)[2].seq = 2

\* C7: a delete of a message that repeats, with the same room, messageId
\* and author, the delete answered with success just before it, answers
\* 403 and leaves the chat logs unchanged.
C7_SecondDeleteRefused ==
  [][( /\ resp.op = "deleteMessage" /\ resp.status = 200
       /\ DeleteMessage(resp.room, resp.id, resp.arg) )
     => /\ resp'.status = 403
        /\ chatStorage' = chatStorage]_vars

\* C7 witness: a repeated delete has been answered 403.
C7_Witness ==
  /\ resp.op = "deleteMessage" /\ resp.status = 403 /\ resp.repeat

\* C9: every log is in the order in which the send_message handlers
\* persisted its messages, and GET /api/chat/:room answers with the log as
\* stored, in that order.
C9_HistoryInCompletionOrder ==
  /\ \A room \in DOMAIN chatStorage : InSendOrder(chatStorage[room])
  /\ resp.op = "history" =>
       /\ resp.body = loadChatHistory(resp.id)
       /\ InSendOrder(resp.body)

\* C9 witness: the history of a room that holds the messages of two
\* send_message events has been fetched.
C9_Witness ==
  /\ resp.op = "history"
  /\ Len(resp.body) = 2
  /\ resp.body[1].seq = 1 /\ resp.body[2].seq = 2

\* C10: no two stored messages, in one log or in two, have the same id,
\* and the id of the message just stored is the one the server assigned,
\* not the one the client sent.
C10_UniqueMessageIds ==
  /\ \A p, q \in StoredAt :
       chatStorage[p[1]][p[2]].id = chatStorage[q[1]][q[2]].id => p = q
  /\ resp.op = "send_message" =>
       LET history == loadChatHistory(resp.room)
       IN history[Len(history)].id = resp.id

\* ------------------------------------------------- socket-event claims

\* The live connections the registry holds for a room: membersOf(room).
LiveMembers(room) ==
  IF room \in DOMAIN activeRooms
    THEN { s \in activeRooms[room] : conn[s] = "open" }
    ELSE {}

\* How many of the emissions carry the event with the message id to the socket.
Delivered(emissions, socket, event, messageId) ==
  Cardinality({ i \in 1..Len(emissions) :
                  /\ emissions[i].event = event
                  /\ socket \in emissions[i].recipients
                  /\ emissions[i].payload.id = messageId })

\* C11: a send_message on room R from connection X delivers exactly one
\* receive_message with the server-assigned id to every live member of R
\* other than X and to nobody else, and exactly one message_sent with that
\* id to X and to nobody else.
C11_FanOut ==
  [][\A socket \in Sockets, data \in SendBodies, suffix \in Suffixes :
       SendMessage(socket, data, suffix) =>
         \A s \in Sockets :
           /\ Delivered(out', s, "receive_message", NewMessageId(suffix))
                = IF s \in LiveMembers(data.room) \ {socket} THEN 1 ELSE 0
           /\ Delivered(out', s, "message_sent", NewMessageId(suffix))
                = IF s = socket THEN 1 ELSE 0]_vars

\* C11 witness: a message sent by a member of the room was delivered as
\* receive_message to the other member and acknowledged to the sender.
C11_Witness ==
  /\ resp.op = "send_message"
  /\ Len(out) = 2
  /\ \E x, y \in Sockets :
       /\ x # y
       /\ LiveMembers(resp.room) = {x, y}
       /\ out[1].event = "receive_message" /\ out[1].recipients = {y}
       /\ out[2].event = "message_sent" /\ out[2].recipients = {x}
       /\ out[1].payload.id = resp.id /\ out[2].payload.id = resp.id

\* ------------------------------------------- class-request claims (cont.)

\* C12: Deleted is terminal: the record a successful delete removed is not
\* in the table again.  Stated for the first handler that runs after the
\* delete, the earliest step at which the id can come back.
C12_DeletedIsTerminal ==
  [][(resp.op = "delete" /\ resp.status = 200)
       => ~HasRequest(classRequests', resp.id)]_vars

\* ------------------------------------------------- chat claims (cont.)

\* Some message of the history has this id and this author.
Matches(history, messageId, author) ==
  \E i \in 1..Len(history) :
     history[i].id = messageId /\ history[i].author = author

\* The message is one of the stored log of the room.
StoredIn(storage, room, message) ==
  /\ room \in DOMAIN storage
  /\ \E i \in 1..Len(storage[room]) : storage[room][i] = message

\* C13: a delete of a message answers 403 whenever no message of the
\* room's log has both the messageId and the author; the logs are then
\* unchanged and nothing is emitted.  And whenever a stored message leaves
\* its log, the step is a delete answered 200 that names the message's
\* room, id and author.
C13_DeleteNeedsIdAndAuthor ==
  [][ /\ ( /\ resp'.op = "deleteMessage"
           /\ DeleteMessage(resp'.room, resp'.id, resp'.arg)
           /\ ~Matches(loadChatHistory(resp'.room), resp'.id, resp'.arg) )
         => /\ resp'.status = 403
            /\ chatStorage' = chatStorage
            /\ out' = << >>
      /\ \A p \in StoredAt :
           ~StoredIn(chatStorage', p[1], chatStorage[p[1]][p[2]])
             => /\ resp'.op = "deleteMessage" /\ resp'.status = 200
                /\ resp'.room = p[1]
                /\ resp'.id = chatStorage[p[1]][p[2]].id
                /\ resp'.arg = chatStorage[p[1]][p[2]].author ]_vars

\* C13 witness: a delete naming the id of a stored message and another
\* author was answered 403, and the message is still in the log.
C13_Witness ==
  /\ resp.op = "deleteMessage" /\ resp.status = 403
  /\ \E i \in 1..Len(loadChatHistory(resp.room)) :
       /\ loadChatHistory(resp.room)[i].id = resp.id
       /\ loadChatHistory(resp.room)[i].author # resp.arg

\* The history without the first message that has the id and the author.
WithoutFirstMatch(history, messageId, author) ==
  LET hits == { i \in 1..Len(history) :
                  history[i].id = messageId /\ history[i].author = author }
      first == CHOOSE i \in hits : \A j \in hits : i <= j
  IN IF hits = {} THEN history
     ELSE [ k \in 1..(Len(history) - 1) |->
              IF k < first THEN history[k] ELSE history[k + 1] ]

\* C14: a delete answered 200 removes exactly one message, the first of
\* the room's log that has both the messageId and the author: the log is
\* one shorter and the other messages keep their content and order.
C14_DeleteRemovesExactlyOne ==
  [][( /\ resp'.op = "deleteMessage" /\ resp'.status = 200
       /\ DeleteMessage(resp'.room, resp'.id, resp'.arg) )
     => /\ Len(chatStorage'[resp'.room]) = Len(loadChatHistory(resp'.room)) - 1
        /\ chatStorage'[resp'.room]
             = WithoutFirstMatch(loadChatHistory(resp'.room), resp'.id, resp'.arg)]_vars

\* The rooms whose set in the registry holds the socket.
RegistryRoomsOf(socket) ==
  { r \in DOMAIN activeRooms : socket \in activeRooms[r] }

\* C15: every connection is in at most one room's set of the registry and
\* in at most one room for broadcasts: a join_room(B) by a connection in
\* room A takes it out of A.
C15_AtMostOneRoom ==
  \A s \in Sockets :
    /\ Cardinality(RegistryRoomsOf(s)) <= 1
    /\ Cardinality(socketRooms[s]) <= 1

\* C16: after a connection's disconnect handler has run, no room's set in
\* the registry holds the connection.
C16_DisconnectReleasesAll ==
  \A s \in Sockets : conn[s] = "closed" => RegistryRoomsOf(s) = {}

\* C17: the registry has no entry with an empty set, and every entry has a
\* live member: when the last live member of a room has disconnected the
\* entry is gone.
C17_NoDanglingRoom ==
  \A r \in DOMAIN activeRooms :
    /\ activeRooms[r] # {}
    /\ LiveMembers(r) # {}

\* C18: a connection that joins a room gets, in that same step, exactly one
\* chat_history snapshot holding everything stored for the room so far and
\* is a member from then on; a message another connection submits is
\* stored and is delivered as receive_message exactly once to every open
\* connection that has joined its room and not at all to one that has not
\* (it finds the message in the snapshot of its later join, since nothing
\* stored is dropped by a socket event).  So a connection that joins once
\* sees each message in the snapshot or live, never both, never neither.
C18_SeenExactlyOnce ==
  [][/\ \A c \in Sockets, room \in Rooms :
          (JoinRoom(c, room) /\ c \notin LiveMembers(room)) =>
            /\ Len(out') = 1
            /\ out'[1].event = "chat_history"
            /\ out'[1].recipients = {c}
            /\ out'[1].payload = loadChatHistory(room)
            /\ chatStorage' = chatStorage
            /\ c \in activeRooms'[room]
     /\ \A sender \in Sockets, data \in SendBodies, suffix \in Suffixes :
          SendMessage(sender, data, suffix) =>
            /\ StoredIn(chatStorage', data.room, StampMessage(data, suffix))
            /\ \A i \in 1..Len(out') : out'[i].event # "chat_history"
            /\ \A c \in Sockets \ {sender} :
                 conn[c] = "open" =>
                   Delivered(out', c, "receive_message", NewMessageId(suffix))
                     = IF c \in LiveMembers(data.room) THEN 1 ELSE 0
     /\ \A p \in StoredAt : StoredIn(chatStorage', p[1], chatStorage[p[1]][p[2]])
    ]_vars

\* C18 witness: a connection joined a room in which another connection is
\* live, after a message had been stored for it; the message came in the
\* snapshot.
C18_Witness ==
  /\ resp.op = "join_room"
  /\ Len(out) = 1 /\ out[1].event = "chat_history"
  /\ Len(out[1].payload) >= 1
  /\ out[1].recipients = {resp.arg}
  /\ resp.id \in DOMAIN chatStorage /\ out[1].payload = chatStorage[resp.id]
  /\ LiveMembers(resp.id) = Sockets

\* C19: a create, a successful join and a successful delete each emit
\* exactly one event (class_request_created, class_request_updated,
\* class_request_deleted) to the record's room, and what the event carries
\* is what the table holds after the step: the stored record for create and
\* join, the id of a record that is gone for delete, whose room is the one
\* the record had before the step.  A join or delete answered 404, 400 or
\* 403 emits nothing and leaves the table as it was.
C19_OneEventAfterPersist ==
  [][clock' = clock =>
       /\ (resp'.op = "create" \/ (resp'.op = "join" /\ resp'.status = 200)) =>
            /\ Len(out') = 1
            /\ out'[1].event = (IF resp'.op = "create" THEN "class_request_created"
                                                       ELSE "class_request_updated")
            /\ HasRequest(classRequests', resp'.id)
            /\ out'[1].payload = classRequests'[resp'.id]
            /\ out'[1].room = classRequests'[resp'.id].room
       /\ (resp'.op = "delete" /\ resp'.status = 200) =>
            /\ Len(out') = 1
            /\ out'[1].event = "class_request_deleted"
            /\ out'[1].payload = [id |-> resp'.id]
            /\ HasRequest(classRequests, resp'.id)
            /\ out'[1].room = classRequests[resp'.id].room
            /\ ~HasRequest(classRequests', resp'.id)
       /\ (resp'.op \in {"join", "delete"} /\ resp'.status \in {400, 403, 404}) =>
            /\ out' = << >>
            /\ classRequests' = classRequests]_vars

\* C19 witness: a delete was refused with 403 for a record that is still in
\* the table and has a second participant (so a create and a successful
\* join came before), and nothing was emitted.
C19_Witness ==
  /\ resp.op = "delete" /\ resp.status = 403
  /\ out = << >>
  /\ HasRequest(classRequests, resp.id)
  /\ classRequests[resp.id].creatorName # resp.arg
  /\ classRequests[resp.id].participantCount = 2

\* ------------------------------------------------------------ frame claim
\* The request endpoints and the chat operations side by side, for one
\* socket, one random suffix, one creation body and one join body that is
\* not the creator's own.
FrameSockets == {"x"}
FrameSuffixes == {"k3f9a"}
FramePayloads == { body \in Payloads : body.room = "A" }
FrameJoins == { pd \in ParticipantBodies : pd.fullName = "dave" }
\* The message ids the server can assign with these suffixes.
FrameMessageIds == { ToString(c) \o x : c \in 1..MaxClock, x \in FrameSuffixes }

NextFrame ==
  \/ Tick
  \/ \E body \in FramePayloads : CreateClassRequest(body)
  \/ \E id \in RequestIds, creator \in CreatorNames : DeleteClassRequest(id, creator)
  \/ \E id \in RequestIds, participantData \in FrameJoins :
        JoinClassRequest(id, participantData)
  \/ \E socket \in FrameSockets : Connect(socket)
  \/ \E socket \in FrameSockets, data \in SendBodies, suffix \in FrameSuffixes :
        SendMessage(socket, data, suffix)
  \/ \E room \in Rooms, messageId \in FrameMessageIds, author \in Authors :
        DeleteMessage(room, messageId, author)

SpecFrame == Init /\ [][NextFrame]_vars

\* C20: a join or delete on request id X leaves every record with another
\* id as it was (none added, none removed, none changed) and leaves every
\* chat log as it was; a send_message or deleteMessage on room R leaves the
\* request table as it was and leaves the log of every other room as it was
\* (no file created, removed or rewritten).
C20_Frame ==
  [][clock' = clock =>
       /\ resp'.op \in {"join", "delete"} =>
            /\ DOMAIN classRequests' \ {resp'.id} = DOMAIN classRequests \ {resp'.id}
            /\ \A k \in DOMAIN classRequests \ {resp'.id} :
                 classRequests'[k] = classRequests[k]
            /\ chatStorage' = chatStorage
       /\ resp'.op \in {"send_message", "deleteMessage"} =>
            /\ classRequests' = classRequests
            /\ DOMAIN chatStorage' \ {resp'.room} = DOMAIN chatStorage \ {resp'.room}
            /\ \A r \in DOMAIN chatStorage \ {resp'.room} :
                 chatStorage'[r] = chatStorage[r]]_vars

\* C20 witness: a message was stored in a room while the other room has a
\* log of its own and the table holds two records, one of them joined.
C20_Witness ==
  /\ resp.op = "send_message"
  /\ DOMAIN chatStorage = Rooms
  /\ \A r \in Rooms : Len(chatStorage[r]) = 1
  /\ Cardinality(DOMAIN classRequests) = 2
  /\ \E k \in DOMAIN classRequests : classRequests[k].participantCount = 2

====
